---- MODULE Spec2Model ----
(***************************************************************************)
(* The borrowed JSON DOM of simd-json (src/value/borrowed.rs): the value   *)
(* tree, the tree builder (BorrowDeserializer), the static promotions      *)
(* (into_static, clone_static), the typed integer accessors and the        *)
(* mutators (insert, remove, push, pop).                                   *)
(*                                                                         *)
(* Strings are natural numbers standing for their contents; a Cow pairs a  *)
(* content with its storage mode.  An Object is a halfbrown::HashMap: a    *)
(* vector of (key, value) pairs while it is small, a hash table above      *)
(* VEC_LIMIT_UPPER entries.                                                *)
(***************************************************************************)
EXTENDS Integers, Sequences, FiniteSets, TLC

VARIABLES
    events,   \* the tape of parse events handed to the builder
    idx,      \* the builder's cursor: number of events consumed
    val,      \* the value tree T owned by the program
    stat,     \* the tree returned by the last promotion of val
    last,     \* the last operation performed, its arguments and its return value
    hasher,   \* the build's hash function (DefaultHashBuilder), fixed per run
    nops,     \* number of mutations performed so far
    text,     \* the JSON text produced by encoding val
    decoded   \* the result of to_value on that text

vars == <<events, idx, val, stat, last, hasher, nops, text, decoded>>

(***************************************************************************)
(* Bounds of the model.                                                    *)
(***************************************************************************)
\* longest generic event stream
MaxEvents == 5
\* largest declared length of the wide objects
MaxWide == 57
\* integer width the accessors are modelled at (the code's is 64)
IntBits == 4
\* mutations performed in one behaviour
MaxOps == 2

(***************************************************************************)
(* Option and Result.                                                      *)
(***************************************************************************)
None == [some |-> FALSE]
Some(x) == [some |-> TRUE, val |-> x]
Ok(x) == [ok |-> TRUE, val |-> x]
Err(e) == [ok |-> FALSE, err |-> e]
Unit == "()"

(***************************************************************************)
(* StaticNode, Cow and Value.                                              *)
(***************************************************************************)
Null == [kind |-> "Null", val |-> 0]
Bool(b) == [kind |-> "Bool", val |-> b]
I64(i) == [kind |-> "I64", val |-> i]
U64(u) == [kind |-> "U64", val |-> u]
F64(f) == [kind |-> "F64", val |-> f]

I64_MIN == -(2 ^ (IntBits - 1))
I64_MAX == 2 ^ (IntBits - 1) - 1
U64_MAX == 2 ^ IntBits - 1

Borrowed(s) == [cow |-> "Borrowed", s |-> s]
Owned(s) == [cow |-> "Owned", s |-> s]

Static(n) == [tag |-> "Static", node |-> n]
String(c) == [tag |-> "String", str |-> c]
Array(a) == [tag |-> "Array", arr |-> a]
Object(o) == [tag |-> "Object", obj |-> o]

\* Cow::into_owned / str::to_owned / ToString: an owned copy of the same bytes
into_owned(c) == Owned(c.s)

(***************************************************************************)
(* halfbrown::HashMap<Cow<str>, Value>.  [mode, buckets, v]: v lists the   *)
(* entries in iteration order.  In mode "Vec" that is the order of the     *)
(* backing vector.  In mode "Map" (hashbrown) the entries sit in a table   *)
(* of `buckets` slots and are iterated by slot; the model orders them by   *)
(* home slot (hash mod buckets), entries sharing a home slot in the order  *)
(* they entered the table.                                                 *)
(***************************************************************************)
VEC_LIMIT_UPPER == 32

\* for k in lo..hi-1 { st = Body(st, k) }: the iterations run in order.  The range
\* is split in halves, and the first half is evaluated (by the test on it) before
\* the second starts, only to keep TLC's evaluation shallow.
RECURSIVE Iterate(_, _, _, _)
Iterate(Body(_, _), st, lo, hi) ==
    IF lo >= hi THEN st
    ELSE IF hi = lo + 1 THEN Body(st, lo)
    ELSE LET mid == (lo + hi) \div 2
             half == Iterate(Body, st, lo, mid)
         IN  IF half = half THEN Iterate(Body, half, mid, hi) ELSE half

Entry(k, v) == [k |-> k, v |-> v]

\* the hash of a key depends on its contents only, not on its storage mode
Hash(h, k) == (k.s * h) % 1024

RECURSIVE next_power_of_two(_, _)
next_power_of_two(n, p) == IF p >= n THEN p ELSE next_power_of_two(n, 2 * p)

\* hashbrown: the number of buckets of a table holding cap entries
capacity_to_buckets(cap) ==
    IF cap < 4 THEN 4
    ELSE IF cap < 8 THEN 8
    ELSE next_power_of_two((cap * 8) \div 7, 1)

\* hashbrown: the number of entries a table of b buckets holds before it grows
bucket_mask_to_capacity(b) == IF b < 8 THEN b - 1 ELSE (b \div 8) * 7

Home(h, b, k) == Hash(h, k) % b

\* index of the first entry of v whose key equals k (by contents), 0 if none
Find(v, k) ==
    LET S == {i \in 1..Len(v) : v[i].k.s = k.s}
    IN  IF S = {} THEN 0 ELSE CHOOSE i \in S : \A j \in S : i <= j

\* number of entries of v whose home slot is at most that of k
SlotRank(h, b, v, k) ==
    Cardinality({i \in 1..Len(v) : Home(h, b, v[i].k) <= Home(h, b, k)})

\* a new entry placed into the table
TablePlace(h, b, v, e) ==
    LET r == SlotRank(h, b, v, e.k)
    IN  SubSeq(v, 1, r) \o <<e>> \o SubSeq(v, r + 1, Len(v))

\* the entries of v moved, in iteration order, into a table of b buckets
TableFill(h, b, v) ==
    LET Body(acc, i) == TablePlace(h, b, acc, v[i])
    IN  Iterate(Body, <<>>, 1, Len(v) + 1)

with_capacity(cap) ==
    IF cap > VEC_LIMIT_UPPER
    THEN [mode |-> "Map", buckets |-> capacity_to_buckets(cap), v |-> <<>>]
    ELSE [mode |-> "Vec", buckets |-> 0, v |-> <<>>]

\* HashMap::get: the value of the first entry with this key
map_get(o, k) ==
    LET i == Find(o.v, k)
    IN  IF i = 0 THEN None ELSE Some(o.v[i].v)

\* hashbrown insert: replace the value of an existing key, or place a new entry
\* (growing the table when it is full)
TableInsert(h, o, k, v) ==
    LET i == Find(o.v, k)
    IN  IF i # 0
        THEN [map |-> [o EXCEPT !.v[i].v = v], old |-> Some(o.v[i].v)]
        ELSE IF Len(o.v) >= bucket_mask_to_capacity(o.buckets)
        THEN LET b == capacity_to_buckets(bucket_mask_to_capacity(o.buckets) + 1)
             IN  [map |-> [o EXCEPT !.buckets = b,
                                    !.v = TablePlace(h, b, TableFill(h, b, o.v),
                                                     Entry(k, v))],
                  old |-> None]
        ELSE [map |-> [o EXCEPT !.v = TablePlace(h, o.buckets, o.v, Entry(k, v))],
              old |-> None]

\* VecMap::insert: linear search, replace the first match or push
VecInsert(o, k, v) ==
    LET i == Find(o.v, k)
    IN  IF i # 0
        THEN [map |-> [o EXCEPT !.v[i].v = v], old |-> Some(o.v[i].v)]
        ELSE [map |-> [o EXCEPT !.v = Append(o.v, Entry(k, v))], old |-> None]

\* HashMap::insert: a vector that already holds VEC_LIMIT_UPPER entries is first
\* moved into a hash table
map_insert(h, o, k, v) ==
    IF o.mode = "Map" THEN TableInsert(h, o, k, v)
    ELSE IF Len(o.v) >= VEC_LIMIT_UPPER
    THEN LET b == capacity_to_buckets(Len(o.v))
             t == [mode |-> "Map", buckets |-> b, v |-> TableFill(h, b, o.v)]
         IN  TableInsert(h, t, k, v)
    ELSE VecInsert(o, k, v)

\* HashMap::insert_nocheck: the vector backend pushes without looking for the key
insert_nocheck(h, o, k, v) ==
    IF o.mode = "Map" THEN TableInsert(h, o, k, v).map
    ELSE [o EXCEPT !.v = Append(o.v, Entry(k, v))]

\* HashMap::remove: VecMap uses swap_remove on the first match
map_remove(o, k) ==
    LET i == Find(o.v, k)
        n == Len(o.v)
    IN  IF i = 0 THEN [map |-> o, old |-> None]
        ELSE IF o.mode = "Map" \/ i = n
        THEN [map |-> [o EXCEPT !.v = SubSeq(o.v, 1, i - 1) \o SubSeq(o.v, i + 1, n)],
              old |-> Some(o.v[i].v)]
        ELSE [map |-> [o EXCEPT !.v = SubSeq(o.v, 1, i - 1) \o <<o.v[n]>>
                                       \o SubSeq(o.v, i + 1, n - 1)],
              old |-> Some(o.v[i].v)]

\* collecting into a plain hash table, whatever the number of pairs
CollectIntoTable(h, pairs) ==
    LET Body(acc, i) == TableInsert(h, acc, pairs[i].k, pairs[i].v).map
    IN  Iterate(Body, [mode |-> "Map", buckets |-> capacity_to_buckets(Len(pairs)),
                       v |-> <<>>], 1, Len(pairs) + 1)

\* FromIterator for HashMap: with_capacity(size_hint) then insert each pair
collect_map(h, pairs) ==
    LET Body(acc, i) == map_insert(h, acc, pairs[i].k, pairs[i].v).map
    IN  Iterate(Body, with_capacity(Len(pairs)), 1, Len(pairs) + 1)

(***************************************************************************)
(* Parse events (Node) and the tree builder (BorrowDeserializer).          *)
(***************************************************************************)
NStatic(n) == [tag |-> "Static", node |-> n]
NString(c) == [tag |-> "String", str |-> c]
NArray(len) == [tag |-> "Array", len |-> len]
NObject(len) == [tag |-> "Object", len |-> len]

\* a slot of a preallocated vector that has not been written yet
Uninit == [tag |-> "Uninit"]
\* the result of reaching unreachable!()
Unreachable == [tag |-> "Unreachable"]

\* Deserializer::next_: advance the cursor and return the event under it
next_(ev, i) == [node |-> ev[i + 1], idx |-> i + 1]

\* Value::from(&str) and key.into(): the text keeps the storage the event gave it
ValueFromStr(c) == String(c)

RECURSIVE parse(_, _, _)

\* a fill loop that stops one slot short
ParseArraySkipsLast(h, ev, i, len) ==
    LET Body(st, k) ==
            LET r == parse(h, ev, st.idx)
            IN  [res |-> [st.res EXCEPT ![k + 1] = r.val], idx |-> r.idx]
        fin == Iterate(Body, [res |-> [j \in 1..len |-> Uninit], idx |-> i], 0, len - 1)
    IN  [val |-> Array(fin.res), idx |-> fin.idx]

\* Vec::with_capacity(len); set_len(len);
\* for i in 0..len { ptr::write(res.get_unchecked_mut(i), self.parse()) }
parse_array(h, ev, i, len) ==
    LET Body(st, k) ==
            LET r == parse(h, ev, st.idx)
            IN  [res |-> [st.res EXCEPT ![k + 1] = r.val], idx |-> r.idx]
        fin == Iterate(Body, [res |-> [j \in 1..len |-> Uninit], idx |-> i], 0, len)
    IN  [val |-> Array(fin.res), idx |-> fin.idx]

\* a builder that builds each value from the cursor before the key instead of after it
ParseMapRereadsKey(h, ev, i, len) ==
    LET Body(st, k) ==
            LET n == next_(ev, st.idx)
            IN  IF st.panic \/ n.node.tag # "String"
                THEN [st EXCEPT !.panic = TRUE]
                ELSE LET r == parse(h, ev, st.idx)
                     IN  [res |-> insert_nocheck(h, st.res, n.node.str, r.val),
                          idx |-> r.idx, panic |-> FALSE]
        fin == Iterate(Body, [res |-> with_capacity(len), idx |-> i, panic |-> FALSE],
                       0, len)
    IN  IF fin.panic THEN [val |-> Unreachable, idx |-> fin.idx]
        ELSE [val |-> Object(fin.res), idx |-> fin.idx]

\* a builder that reserves one entry more than announced
ParseMapReservesOneMore(h, ev, i, len) ==
    LET Body(st, k) ==
            LET n == next_(ev, st.idx)
            IN  IF st.panic \/ n.node.tag # "String"
                THEN [st EXCEPT !.panic = TRUE]
                ELSE LET r == parse(h, ev, n.idx)
                     IN  [res |-> insert_nocheck(h, st.res, n.node.str, r.val),
                          idx |-> r.idx, panic |-> FALSE]
        fin == Iterate(Body, [res |-> with_capacity(len + 1), idx |-> i, panic |-> FALSE],
                       0, len)
    IN  IF fin.panic THEN [val |-> Unreachable, idx |-> fin.idx]
        ELSE [val |-> Object(fin.res), idx |-> fin.idx]

\* Object::with_capacity(len);
\* for _ in 0..len { key = next_(); res.insert_nocheck(key.into(), self.parse()) }
parse_map(h, ev, i, len) ==
    LET Body(st, k) ==
            LET n == next_(ev, st.idx)
            IN  IF st.panic \/ n.node.tag # "String"
                THEN [st EXCEPT !.panic = TRUE]
                ELSE LET r == parse(h, ev, n.idx)
                     IN  [res |-> insert_nocheck(h, st.res, n.node.str, r.val),
                          idx |-> r.idx, panic |-> FALSE]
        fin == Iterate(Body, [res |-> with_capacity(len), idx |-> i, panic |-> FALSE],
                       0, len)
    IN  IF fin.panic THEN [val |-> Unreachable, idx |-> fin.idx]
        ELSE [val |-> Object(fin.res), idx |-> fin.idx]

parse(h, ev, i) ==
    LET n == next_(ev, i)
    IN  CASE n.node.tag = "Static" -> [val |-> Static(n.node.node), idx |-> n.idx]
          [] n.node.tag = "String" -> [val |-> ValueFromStr(n.node.str), idx |-> n.idx]
          [] n.node.tag = "Array" -> parse_array(h, ev, n.idx, n.node.len)
          [] n.node.tag = "Object" -> parse_map(h, ev, n.idx, n.node.len)

(***************************************************************************)
(* Static promotion.                                                       *)
(***************************************************************************)
\* Iterator::map(f).collect() into a Vec
MapSeq(F(_), a) == [i \in 1..Len(a) |-> F(a[i])]

RECURSIVE into_static(_, _)
IntoStaticNoRecursion(h, v) ==
    IF v.tag = "String" /\ v.str.cow = "Borrowed" THEN String(Owned(v.str.s)) ELSE v

into_static(h, v) ==
    CASE v.tag = "String" /\ v.str.cow = "Borrowed" -> String(Owned(v.str.s))
      [] v.tag = "Array" ->
            LET F(x) == into_static(h, x) IN Array(MapSeq(F, v.arr))
      [] v.tag = "Object" ->
            LET F(e) == Entry(into_owned(e.k), into_static(h, e.v))
            IN  Object(collect_map(h, MapSeq(F, v.obj.v)))
      [] OTHER -> v

RECURSIVE clone_static(_, _)
clone_static(h, v) ==
    CASE v.tag = "String" -> String(Owned(v.str.s))
      [] v.tag = "Array" ->
            LET F(x) == clone_static(h, x) IN Array(MapSeq(F, v.arr))
      [] v.tag = "Object" ->
            LET F(e) == Entry(into_owned(e.k), clone_static(h, e.v))
            IN  Object(collect_map(h, MapSeq(F, v.obj.v)))
      [] v.tag = "Static" -> Static(v.node)

\* #[derive(Clone)]: a deep copy, storage modes included
Clone(v) == v

(***************************************************************************)
(* Accessors.                                                              *)
(***************************************************************************)
\* a wrapping cast (`as`), as opposed to the checked conversion
I64WrappingCast(u) == Some(IF u > I64_MAX THEN u - 2 ^ IntBits ELSE u)
\* i64::try_from(u64).ok()
i64_try_from(u) == IF u <= I64_MAX THEN Some(u) ELSE None

\* u64::try_from(i64).ok()
u64_try_from(i) == IF i >= 0 THEN Some(i) ELSE None

as_i64(v) ==
    CASE v.tag = "Static" /\ v.node.kind = "I64" -> Some(v.node.val)
      [] v.tag = "Static" /\ v.node.kind = "U64" -> i64_try_from(v.node.val)
      [] OTHER -> None

as_u64(v) ==
    CASE v.tag = "Static" /\ v.node.kind = "I64" -> u64_try_from(v.node.val)
      [] v.tag = "Static" /\ v.node.kind = "U64" -> Some(v.node.val)
      [] OTHER -> None

as_array(v) == IF v.tag = "Array" THEN Some(v.arr) ELSE None
as_object(v) == IF v.tag = "Object" THEN Some(v.obj) ELSE None

\* self.as_object().and_then(|a| a.get(k))
get(v, k) == IF as_object(v).some THEN map_get(as_object(v).val, k) ELSE None

(***************************************************************************)
(* Mutators (trait MutableValue).                                          *)
(***************************************************************************)
AsArrayMutNever(v) == None
as_array_mut(v) == IF v.tag = "Array" THEN Some(v.arr) ELSE None

AsObjectMutNever(v) == None
as_object_mut(v) == IF v.tag = "Object" THEN Some(v.obj) ELSE None

\* self.as_object_mut().ok_or(NotAnObject).map(|o| o.insert(k, v))
insert(h, v, k, x) ==
    LET o == as_object_mut(v)
    IN  IF ~o.some THEN [self |-> v, ret |-> Err("NotAnObject")]
        ELSE LET r == map_insert(h, o.val, k, x)
             IN  [self |-> Object(r.map), ret |-> Ok(r.old)]

\* self.as_object_mut().ok_or(NotAnObject).map(|o| o.remove(k))
remove(v, k) ==
    LET o == as_object_mut(v)
    IN  IF ~o.some THEN [self |-> v, ret |-> Err("NotAnObject")]
        ELSE LET r == map_remove(o.val, k)
             IN  [self |-> Object(r.map), ret |-> Ok(r.old)]

\* self.as_array_mut().ok_or(NotAnArray).map(|a| a.push(v))
push(v, x) ==
    LET a == as_array_mut(v)
    IN  IF ~a.some THEN [self |-> v, ret |-> Err("NotAnArray")]
        ELSE [self |-> Array(Append(a.val, x)), ret |-> Ok(Unit)]

\* self.as_array_mut().ok_or(NotAnArray).map(Vec::pop)
pop(v) ==
    LET a == as_array_mut(v)
    IN  IF ~a.some THEN [self |-> v, ret |-> Err("NotAnArray")]
        ELSE IF Len(a.val) = 0 THEN [self |-> v, ret |-> Ok(None)]
        ELSE [self |-> Array(SubSeq(a.val, 1, Len(a.val) - 1)),
              ret |-> Ok(Some(a.val[Len(a.val)]))]

(***************************************************************************)
(* Constructors (trait ValueBuilder).                                      *)
(***************************************************************************)
null == Static(Null)
array_with_capacity(capacity) == Array(<<>>)
object_with_capacity(capacity) == Object(with_capacity(capacity))

(***************************************************************************)
(* Encoding and decoding.  JSON text is a sequence of tokens: literals,    *)
(* numbers by their mathematical value, strings by their contents, and     *)
(* the punctuation of arrays and objects.                                  *)
(***************************************************************************)
Tok(t, x) == [t |-> t, x |-> x]
NoText == <<Tok("none", 0)>>

\* the JSON literal of a Static leaf: integers are written by value, whatever their kind
encode_static(n) ==
    CASE n.kind = "Null" -> Tok("null", 0)
      [] n.kind = "Bool" -> Tok("bool", n.val)
      [] n.kind \in {"I64", "U64"} -> Tok("int", n.val)
      [] OTHER -> Tok("float", n.val)

\* Value::encode: strings by contents whether borrowed or owned, arrays as bracketed
\* comma-lists, objects as braced comma-lists of "key":value in iteration order
RECURSIVE encode(_)
encode(v) ==
    CASE v.tag = "Static" -> <<encode_static(v.node)>>
      [] v.tag = "String" -> <<Tok("str", v.str.s)>>
      [] v.tag = "Array" ->
            LET Body(acc, k) ==
                    acc \o (IF k > 0 THEN <<Tok(",", 0)>> ELSE <<>>) \o encode(v.arr[k + 1])
            IN  Iterate(Body, <<Tok("[", 0)>>, 0, Len(v.arr)) \o <<Tok("]", 0)>>
      [] v.tag = "Object" ->
            LET Body(acc, k) ==
                    acc \o (IF k > 0 THEN <<Tok(",", 0)>> ELSE <<>>)
                        \o <<Tok("str", v.obj.v[k + 1].k.s), Tok(":", 0)>>
                        \o encode(v.obj.v[k + 1].v)
            IN  Iterate(Body, <<Tok("{", 0)>>, 0, Len(v.obj.v)) \o <<Tok("}", 0)>>
      [] OTHER -> <<>>

\* the Static leaf the tokenizer reads from a number: signed when it fits, unsigned above
number(x) == IF x <= I64_MAX THEN I64(x) ELSE U64(x)

\* one token of the tokenizer's pass: it appends the token's event and keeps, for every
\* open array or object, the place of its event and the count to write there on closing
scan_token(st, tok) ==
    LET open == st.stack # <<>>
        top == st.stack[Len(st.stack)]
        counted == IF open /\ top.kind = "A"
                   THEN [st.stack EXCEPT ![Len(st.stack)].n = top.n + 1]
                   ELSE st.stack
        leaf(n) == [st EXCEPT !.ev = Append(st.ev, n), !.stack = counted]
        frame(kind) == [at |-> Len(st.ev) + 1, kind |-> kind, n |-> 0, key |-> kind = "O"]
        close(kind, node) ==
            IF open /\ top.kind = kind
            THEN [st EXCEPT !.ev[top.at] = node,
                            !.stack = SubSeq(st.stack, 1, Len(st.stack) - 1)]
            ELSE [st EXCEPT !.err = TRUE]
    IN  CASE tok.t = "null" -> leaf(NStatic(Null))
          [] tok.t = "bool" -> leaf(NStatic(Bool(tok.x)))
          [] tok.t = "int" -> leaf(NStatic(number(tok.x)))
          [] tok.t = "float" -> leaf(NStatic(F64(tok.x)))
          [] tok.t = "str" ->
                IF open /\ top.kind = "O" /\ top.key
                THEN [st EXCEPT !.ev = Append(st.ev, NString(Borrowed(tok.x))),
                                !.stack[Len(st.stack)].n = top.n + 1,
                                !.stack[Len(st.stack)].key = FALSE]
                ELSE leaf(NString(Borrowed(tok.x)))
          [] tok.t = "[" ->
                [st EXCEPT !.ev = Append(st.ev, NArray(0)),
                           !.stack = Append(counted, frame("A"))]
          [] tok.t = "{" ->
                [st EXCEPT !.ev = Append(st.ev, NObject(0)),
                           !.stack = Append(counted, frame("O"))]
          [] tok.t = "]" -> close("A", NArray(IF open THEN top.n ELSE 0))
          [] tok.t = "}" -> close("O", NObject(IF open THEN top.n ELSE 0))
          [] tok.t = "," ->
                IF open /\ top.kind = "O"
                THEN [st EXCEPT !.stack[Len(st.stack)].key = TRUE]
                ELSE st
          [] tok.t = ":" -> st
          [] OTHER -> [st EXCEPT !.err = TRUE]

\* Deserializer::from_slice: the events of the text, or a syntax error
from_slice(s) ==
    LET Body(st, k) == scan_token(st, s[k + 1])
        fin == Iterate(Body, [ev |-> <<>>, stack |-> <<>>, err |-> FALSE], 0, Len(s))
    IN  IF fin.err \/ fin.stack # <<>> \/ fin.ev = <<>>
        THEN Err("Syntax")
        ELSE Ok(fin.ev)

\* a builder started one event into the tape
ToValueSkipsRootEvent(h, s) ==
    LET de == from_slice(s)
    IN  IF de.ok
        THEN Ok(parse(h, de.val, IF Len(de.val) > 1 THEN 1 ELSE 0).val)
        ELSE de

\* to_value: the tree built from the text's events, or the tokenizer's error
to_value(h, s) ==
    LET de == from_slice(s)
    IN  IF de.ok THEN Ok(parse(h, de.val, 0).val) ELSE de

(***************************************************************************)
(* The event streams the builder is run on: every well-formed stream of at *)
(* most MaxEvents events over a small alphabet, every scalar leaf, and     *)
(* wide objects around VEC_LIMIT_UPPER entries.                            *)
(***************************************************************************)
LeafNodes == {NStatic(Null), NString(Borrowed(1)), NString(Owned(2))}
KeyCows == {Borrowed(1), Owned(1), Borrowed(2)}

RECURSIVE Streams(_)
RECURSIVE Concats(_, _)
RECURSIVE PairConcats(_, _)

\* the streams of exactly n events that make up one value
Streams(n) ==
    (IF n = 1 THEN {<<e>> : e \in LeafNodes} ELSE {})
    \cup UNION {{<<NArray(k)>> \o t : t \in Concats(k, n - 1)} : k \in 0..(n - 1)}
    \cup UNION {{<<NObject(k)>> \o t : t \in PairConcats(k, n - 1)} : k \in 0..((n - 1) \div 2)}

\* the streams of exactly m events that make up k values
Concats(k, m) ==
    IF k = 0 THEN (IF m = 0 THEN {<<>>} ELSE {})
    ELSE UNION {{s \o t : s \in Streams(j), t \in Concats(k - 1, m - j)} :
                j \in 1..(m - (k - 1))}

\* the streams of exactly m events that make up k (key, value) pairs
PairConcats(k, m) ==
    IF k = 0 THEN (IF m = 0 THEN {<<>>} ELSE {})
    ELSE UNION {{<<NString(c)>> \o s \o t :
                    c \in KeyCows, s \in Streams(j), t \in PairConcats(k - 1, m - 1 - j)} :
                j \in 1..(m - 1 - 2 * (k - 1))}

GenericStreams == UNION {Streams(n) : n \in 1..MaxEvents}

ScalarStreams ==
    {<<NStatic(I64(i))>> : i \in I64_MIN..I64_MAX}
    \cup {<<NStatic(U64(u))>> : u \in 0..U64_MAX}
    \cup {<<NStatic(Bool(b))>> : b \in {0, 1}}
    \cup {<<NStatic(F64(1))>>}

\* Object(n) followed by n pairs; the keys cycle through d distinct contents
Wide(n, d) ==
    <<NObject(n)>> \o
    [i \in 1..(2 * n) |->
        IF i % 2 = 1 THEN NString(Borrowed((((i + 1) \div 2 - 1) % d) + 1))
        ELSE NString(Borrowed(100 + i \div 2))]

WideStreams ==
    {Wide(n, d) : n \in {VEC_LIMIT_UPPER, VEC_LIMIT_UPPER + 1, MaxWide},
                  d \in {VEC_LIMIT_UPPER + 1, MaxWide}}

\* streams whose top node has only leaves below it
FlatStreams == {s \in GenericStreams : \A i \in 2..Len(s) : s[i].tag \in {"Static", "String"}}

Hashers == {7, 13}

NoValue == [tag |-> "NoValue"]
NoKey == Borrowed(0)
Op(op, target, key, arg, ret) ==
    [op |-> op, target |-> target, key |-> key, arg |-> arg, ret |-> ret]

(***************************************************************************)
(* State machine.                                                          *)
(***************************************************************************)
Init ==
    /\ events \in GenericStreams \cup ScalarStreams \cup WideStreams
    /\ hasher \in Hashers
    /\ idx = 0
    /\ val = NoValue
    /\ stat = NoValue
    /\ last = Op("init", "none", NoKey, NoValue, None)
    /\ nops = 0
    /\ text = NoText
    /\ decoded = None

\* to_value: BorrowDeserializer::from_deserializer(de).parse()
ToValue ==
    /\ last.op = "init"
    /\ events # <<>>
    /\ LET r == parse(hasher, events, 0)
       IN  /\ val' = r.val
           /\ idx' = r.idx
    /\ last' = Op("to_value", "val", NoKey, NoValue, None)
    /\ UNCHANGED <<text, decoded, events, stat, hasher, nops>>

\* Value::null(), Value::array(), Value::object(): a fresh value, no tape involved
Construct ==
    /\ last.op = "init"
    /\ events = <<>>
    /\ \E v \in {null, array_with_capacity(0), object_with_capacity(0)} : val' = v
    /\ last' = Op("construct", "val", NoKey, NoValue, None)
    /\ UNCHANGED <<text, decoded, events, idx, stat, hasher, nops>>

\* let s = val.clone().into_static()
IntoStaticAct ==
    /\ val # NoValue
    /\ stat = NoValue
    /\ stat' = into_static(hasher, Clone(val))
    /\ last' = Op("into_static", "val", NoKey, NoValue, None)
    /\ UNCHANGED <<text, decoded, events, idx, val, hasher, nops>>

\* a promotion that moves the source out instead of borrowing it
CloneStaticMovesSource ==
    /\ val # NoValue
    /\ stat = NoValue
    /\ stat' = clone_static(hasher, val)
    /\ val' = null
    /\ last' = Op("clone_static", "val", NoKey, NoValue, None)
    /\ UNCHANGED <<text, decoded, events, idx, hasher, nops>>

\* let s = val.clone_static(): takes &self
CloneStaticAct ==
    /\ val # NoValue
    /\ stat = NoValue
    /\ stat' = clone_static(hasher, val)
    /\ val' = val
    /\ last' = Op("clone_static", "val", NoKey, NoValue, None)
    /\ UNCHANGED <<text, decoded, events, idx, hasher, nops>>

\* v.as_i64() and v.as_u64() on the tree
AsI64Act ==
    /\ val # NoValue
    /\ last' = Op("as_i64", "val", NoKey, NoValue, as_i64(val))
    /\ UNCHANGED <<text, decoded, events, idx, val, stat, hasher, nops>>

AsU64Act ==
    /\ val # NoValue
    /\ last' = Op("as_u64", "val", NoKey, NoValue, as_u64(val))
    /\ UNCHANGED <<text, decoded, events, idx, val, stat, hasher, nops>>

\* the receivers of a mutation: the tree itself until it has been promoted, the
\* returned tree afterwards
Targets == IF stat = NoValue THEN {"val"} ELSE {"stat"}
Target(t) == IF t = "val" THEN val ELSE stat
MutKeys == {Owned(1), Borrowed(2), Owned(VEC_LIMIT_UPPER + 1)}
MutVals == {Static(Bool(1)), String(Borrowed(3))}

\* the receiver replaced by its state after the call
Store(t, self) ==
    /\ val' = IF t = "val" THEN self ELSE val
    /\ stat' = IF t = "stat" THEN self ELSE stat

InsertAct ==
    /\ val # NoValue
    /\ nops < MaxOps
    /\ \E t \in Targets, k \in MutKeys, x \in MutVals :
          LET r == insert(hasher, Target(t), k, x)
          IN  /\ Store(t, r.self)
              /\ last' = Op("insert", t, k, x, r.ret)
    /\ nops' = nops + 1
    /\ UNCHANGED <<text, decoded, events, idx, hasher>>

RemoveAct ==
    /\ val # NoValue
    /\ nops < MaxOps
    /\ \E t \in Targets, k \in MutKeys :
          LET r == remove(Target(t), k)
          IN  /\ Store(t, r.self)
              /\ last' = Op("remove", t, k, NoValue, r.ret)
    /\ nops' = nops + 1
    /\ UNCHANGED <<text, decoded, events, idx, hasher>>

PushAct ==
    /\ val # NoValue
    /\ nops < MaxOps
    /\ \E t \in Targets, x \in MutVals :
          LET r == push(Target(t), x)
          IN  /\ Store(t, r.self)
              /\ last' = Op("push", t, NoKey, x, r.ret)
    /\ nops' = nops + 1
    /\ UNCHANGED <<text, decoded, events, idx, hasher>>

PopAct ==
    /\ val # NoValue
    /\ nops < MaxOps
    /\ \E t \in Targets :
          LET r == pop(Target(t))
          IN  /\ Store(t, r.self)
              /\ last' = Op("pop", t, NoKey, NoValue, r.ret)
    /\ nops' = nops + 1
    /\ UNCHANGED <<text, decoded, events, idx, hasher>>

\* let mut string = borrowed.encode()
EncodeAct ==
    /\ val # NoValue
    /\ text = NoText
    /\ text' = encode(val)
    /\ last' = Op("encode", "val", NoKey, NoValue, None)
    /\ UNCHANGED <<decoded, events, idx, val, stat, hasher, nops>>

\* let decoded = to_value(&mut bytes): the maps of the new tree have a hasher of their own
DecodeAct ==
    /\ text # NoText
    /\ decoded = None
    /\ \E h \in Hashers : decoded' = Some(to_value(h, text))
    /\ last' = Op("to_value", "decoded", NoKey, NoValue, None)
    /\ UNCHANGED <<text, events, idx, val, stat, hasher, nops>>

\* building, promoting and reading a tree
Next ==
    \/ ToValue
    \/ IntoStaticAct
    \/ CloneStaticAct
    \/ AsI64Act
    \/ AsU64Act

Spec == Init /\ [][Next]_vars

\* building or constructing a value, mutating it, promoting it and mutating the
\* returned tree
InitMut ==
    /\ events \in FlatStreams \cup WideStreams \cup {<<>>}
    /\ hasher \in Hashers
    /\ idx = 0
    /\ val = NoValue
    /\ stat = NoValue
    /\ last = Op("init", "none", NoKey, NoValue, None)
    /\ nops = 0
    /\ text = NoText
    /\ decoded = None

NextMut ==
    \/ ToValue
    \/ Construct
    \/ CloneStaticAct
    \/ InsertAct
    \/ RemoveAct
    \/ PushAct
    \/ PopAct

SpecMut == InitMut /\ [][NextMut]_vars

\* building a tree, encoding it and decoding the text
NextRT ==
    \/ ToValue
    \/ EncodeAct
    \/ DecodeAct

SpecRT == Init /\ [][NextRT]_vars

(***************************************************************************)
(* Vocabulary of the properties.                                           *)
(***************************************************************************)
Built == val # NoValue
Promoted == stat # NoValue
Mutations == {"insert", "remove", "push", "pop"}
TargetNext(t) == IF t = "val" THEN val' ELSE stat'

\* the contents of the keys of an object, in iteration order
KeySeq(o) == [j \in 1..Len(o.v) |-> o.v[j].k.s]
KeySet(o) == {o.v[j].k.s : j \in 1..Len(o.v)}
UniqueKeys(o) == \A i, j \in 1..Len(o.v) : o.v[i].k.s = o.v[j].k.s => i = j

\* the distinct elements of a sequence, each at the place of its first occurrence
FirstOccurrences(q) ==
    LET Body(acc, i) == IF \E j \in 1..Len(acc) : acc[j] = q[i] THEN acc ELSE Append(acc, q[i])
    IN  Iterate(Body, <<>>, 1, Len(q) + 1)

\* the claim's structural equality: same variant at every node, same scalars, same
\* string contents, same array elements in place, same key-to-value mapping
RECURSIVE SameTree(_, _)
SameTree(a, b) ==
    /\ a.tag = b.tag
    /\ CASE a.tag = "Static" -> a.node = b.node
         [] a.tag = "String" -> a.str.s = b.str.s
         [] a.tag = "Array" ->
               /\ Len(a.arr) = Len(b.arr)
               /\ \A i \in 1..Len(a.arr) : SameTree(a.arr[i], b.arr[i])
         [] a.tag = "Object" ->
               \A c \in KeySet(a.obj) \cup KeySet(b.obj) :
                  LET x == map_get(a.obj, Owned(c))
                      y == map_get(b.obj, Owned(c))
                  IN  x.some /\ y.some /\ SameTree(x.val, y.val)
         [] OTHER -> FALSE

\* every string and every key of the tree is owned
RECURSIVE AllOwned(_)
AllOwned(v) ==
    CASE v.tag = "String" -> v.str.cow = "Owned"
      [] v.tag = "Array" -> \A i \in 1..Len(v.arr) : AllOwned(v.arr[i])
      [] v.tag = "Object" ->
            \A j \in 1..Len(v.obj.v) : v.obj.v[j].k.cow = "Owned" /\ AllOwned(v.obj.v[j].v)
      [] OTHER -> TRUE

\* some string or key of the tree is borrowed
RECURSIVE SomeBorrowed(_)
SomeBorrowed(v) ==
    CASE v.tag = "String" -> v.str.cow = "Borrowed"
      [] v.tag = "Array" -> \E i \in 1..Len(v.arr) : SomeBorrowed(v.arr[i])
      [] v.tag = "Object" ->
            \E j \in 1..Len(v.obj.v) : v.obj.v[j].k.cow = "Borrowed" \/ SomeBorrowed(v.obj.v[j].v)
      [] OTHER -> FALSE

(***************************************************************************)
(* C1.  For every tree T, into_static(clone(T)) and clone_static(T) are    *)
(* structurally equal to T.                                                *)
(***************************************************************************)
C1_PromotionEqualsSource == Promoted => SameTree(val, stat)

(***************************************************************************)
(* C2.  In the tree returned by into_static or clone_static every String   *)
(* and every Object key, at every depth, is owned.                         *)
(***************************************************************************)
C2_PromotedAllOwned == Promoted => AllOwned(stat)

\* a promoted object whose source holds a borrowed key over an array or object that
\* holds a borrowed string or key
C2_Witness ==
    /\ Promoted
    /\ val.tag = "Object"
    /\ \E j \in 1..Len(val.obj.v) :
          /\ val.obj.v[j].k.cow = "Borrowed"
          /\ val.obj.v[j].v.tag \in {"Array", "Object"}
          /\ SomeBorrowed(val.obj.v[j].v)

\* index of the last entry of v whose key has contents c
LastIndex(v, c) ==
    LET S == {i \in 1..Len(v) : v[i].k.s = c}
    IN  CHOOSE i \in S : \A j \in S : j <= i

\* corresponding objects of the two trees iterate the same keys in the same order
RECURSIVE SameKeyOrder(_, _)
SameKeyOrder(s, d) ==
    CASE s.tag = "Array" /\ d.tag = "Array" ->
            /\ Len(s.arr) = Len(d.arr)
            /\ \A i \in 1..Len(s.arr) : SameKeyOrder(s.arr[i], d.arr[i])
      [] s.tag = "Object" /\ d.tag = "Object" ->
            /\ Len(s.obj.v) = Len(d.obj.v)
            /\ \A j \in 1..Len(s.obj.v) :
                  /\ s.obj.v[j].k.s = d.obj.v[j].k.s
                  /\ SameKeyOrder(s.obj.v[j].v, d.obj.v[j].v)
      [] OTHER -> s.tag = d.tag

\* every vector-backed object of s has its distinct keys, in the order of their
\* first occurrence, as the keys of the corresponding object of d
RECURSIVE VecKeyOrder(_, _)
VecKeyOrder(s, d) ==
    CASE s.tag = "Array" /\ d.tag = "Array" ->
            /\ Len(s.arr) = Len(d.arr)
            /\ \A i \in 1..Len(s.arr) : VecKeyOrder(s.arr[i], d.arr[i])
      [] s.tag = "Object" /\ d.tag = "Object" ->
            IF s.obj.mode = "Vec"
            THEN LET first == FirstOccurrences(KeySeq(s.obj))
                 IN  /\ Len(d.obj.v) = Len(first)
                     /\ \A j \in 1..Len(first) :
                           /\ d.obj.v[j].k.s = first[j]
                           /\ VecKeyOrder(s.obj.v[LastIndex(s.obj.v, first[j])].v,
                                          d.obj.v[j].v)
            ELSE \A j \in 1..Len(s.obj.v) :
                    LET y == map_get(d.obj, s.obj.v[j].k)
                    IN  y.some /\ VecKeyOrder(s.obj.v[j].v, y.val)
      [] OTHER -> s.tag = d.tag

C4_CloneStaticLeavesSource ==
    [][/\ last'.op = "clone_static" => (val' = val /\ val' # NoValue)
       /\ (last'.op \in Mutations /\ last'.target = "stat") => val' = val]_vars

\* the tree returned by clone_static has been mutated and differs from its source
C4_Witness ==
    /\ Promoted
    /\ last.op \in {"insert", "push"}
    /\ last.target = "stat"
    /\ last.ret.ok
    /\ stat # clone_static(hasher, val)
    /\ SomeBorrowed(val)

(***************************************************************************)
(* C5.  After any sequence of insert and remove calls an Object holds at   *)
(* most one entry per key; insert(k, v) returns Ok of the value previously *)
(* stored at k and afterwards get(k) yields v; remove(k) returns Ok of the *)
(* value stored at k and afterwards get(k) is absent.                      *)
(***************************************************************************)
C5_InsertRemove ==
    [][LET t == last'.target
           T == Target(t)
           T2 == TargetNext(t)
           k == last'.key
       IN  /\ (last'.op = "insert" /\ T.tag = "Object") =>
                 /\ last'.ret = Ok(get(T, k))
                 /\ get(T2, k) = Some(last'.arg)
                 /\ UniqueKeys(T2.obj)
           /\ (last'.op = "remove" /\ T.tag = "Object") =>
                 /\ last'.ret = Ok(get(T, k))
                 /\ get(T2, k) = None
                 /\ UniqueKeys(T2.obj)]_vars

(***************************************************************************)
(* C6.  On an Array, push returns Ok and appends the element at the end;   *)
(* pop returns Ok of the last element and removes it, so a pop after a     *)
(* push returns the pushed element; pop on an empty Array returns          *)
(* Ok(absent) and leaves it empty.                                         *)
(***************************************************************************)
C6_PushPop ==
    [][LET t == last'.target
           T == Target(t)
           T2 == TargetNext(t)
       IN  /\ (last'.op = "push" /\ T.tag = "Array") =>
                 /\ last'.ret = Ok(Unit)
                 /\ T2 = Array(Append(T.arr, last'.arg))
           /\ (last'.op = "pop" /\ T.tag = "Array" /\ Len(T.arr) = 0) =>
                 /\ last'.ret = Ok(None)
                 /\ T2 = Array(<<>>)
           /\ (last'.op = "pop" /\ T.tag = "Array" /\ Len(T.arr) > 0) =>
                 /\ last'.ret = Ok(Some(T.arr[Len(T.arr)]))
                 /\ T2 = Array(SubSeq(T.arr, 1, Len(T.arr) - 1))
           /\ (last.op = "push" /\ last.target = t /\ T.tag = "Array" /\ last'.op = "pop") =>
                 last'.ret = Ok(Some(last.arg))]_vars

\* a pop that returned the element a push had just appended
C6_Witness ==
    /\ last.op = "pop"
    /\ nops = 2
    /\ last.ret = Ok(Some(String(Borrowed(3))))
    /\ Target(last.target).tag = "Array"
    /\ Len(Target(last.target).arr) > 0

(***************************************************************************)
(* C7.  insert and remove on a value that is not an Object return          *)
(* Err(NotAnObject), push and pop on a value that is not an Array return   *)
(* Err(NotAnArray); on a value of the right shape they return Ok.          *)
(***************************************************************************)
C7_ShapeErrors ==
    [][LET T == Target(last'.target)
       IN  /\ last'.op \in {"insert", "remove"} =>
                 IF T.tag = "Object" THEN last'.ret.ok
                 ELSE last'.ret = Err("NotAnObject")
           /\ last'.op \in {"push", "pop"} =>
                 IF T.tag = "Array" THEN last'.ret.ok
                 ELSE last'.ret = Err("NotAnArray")]_vars

\* a second mutation of an Array was a remove, answered with NotAnObject
C7_Witness ==
    /\ last.op = "remove"
    /\ last.ret = Err("NotAnObject")
    /\ val.tag = "Array"
    /\ nops = 2

(***************************************************************************)
(* C8.  as_i64 (as_u64) returns the mathematical value of an I64 or U64    *)
(* leaf exactly when that value lies in the signed (unsigned) range, and   *)
(* is absent otherwise and for every value that is not an integer leaf.    *)
(***************************************************************************)
IsInteger(v) == v.tag = "Static" /\ v.node.kind \in {"I64", "U64"}

C8_IntegerAccessors ==
    /\ last.op = "as_i64" =>
          IF IsInteger(val) /\ val.node.val \in I64_MIN..I64_MAX
          THEN last.ret = Some(val.node.val)
          ELSE last.ret = None
    /\ last.op = "as_u64" =>
          IF IsInteger(val) /\ val.node.val \in 0..U64_MAX
          THEN last.ret = Some(val.node.val)
          ELSE last.ret = None

\* as_i64 was absent on the unsigned leaf just above the signed range
C8_Witness ==
    /\ last.op = "as_i64"
    /\ val = Static(U64(I64_MAX + 1))
    /\ last.ret = None

(***************************************************************************)
(* The events of one value, counted from the structure of the stream.      *)
(***************************************************************************)
\* the index just past the value whose first event is ev[i]
RECURSIVE ValueEnd(_, _)
ValueEnd(ev, i) ==
    CASE ev[i].tag = "Array" ->
            LET Body(p, k) == ValueEnd(ev, p) IN Iterate(Body, i + 1, 0, ev[i].len)
      [] ev[i].tag = "Object" ->
            LET Body(p, k) == ValueEnd(ev, p + 1) IN Iterate(Body, i + 1, 0, ev[i].len)
      [] OTHER -> i + 1

\* the first event of the j-th child of a top-level Array
ArrayChild(ev, j) ==
    LET Body(p, k) == ValueEnd(ev, p) IN Iterate(Body, 2, 1, j)

\* the key event of the j-th pair of a top-level Object
ObjectKey(ev, j) ==
    LET Body(p, k) == ValueEnd(ev, p + 1) IN Iterate(Body, 2, 1, j)

\* the value built from the events of the value that starts at ev[i], on their own
BuiltFrom(ev, i) == parse(hasher, SubSeq(ev, i, ValueEnd(ev, i) - 1), 0).val

(***************************************************************************)
(* C9.  An Array(n) event followed by the events of n children is built    *)
(* into an Array of exactly n elements, the i-th being the value built     *)
(* from the i-th child's events, for every n >= 0 and nested children.     *)
(***************************************************************************)
C9_ArrayInEventOrder ==
    (Built /\ events # <<>> /\ events[1].tag = "Array") =>
        /\ val.tag = "Array"
        /\ Len(val.arr) = events[1].len
        /\ \A j \in 1..events[1].len : val.arr[j] = BuiltFrom(events, ArrayChild(events, j))

\* a built array of a nested array or object followed by a different child
C9_Witness ==
    /\ Built
    /\ events # <<>>
    /\ events[1] = NArray(2)
    /\ val.arr[1].tag \in {"Array", "Object"}
    /\ val.arr[2].tag = "String"

(***************************************************************************)
(* C10 as claimed.  An Object built from Object(n) and n pairs iterates    *)
(* its keys in the order their key events appeared, for every n.           *)
(***************************************************************************)
KeyEvents(ev) == [j \in 1..ev[1].len |-> ev[ObjectKey(ev, j)].str.s]

EqualStatic(m, n) ==
    IF m.kind \in {"I64", "U64"} /\ n.kind \in {"I64", "U64"}
    THEN m.val = n.val
    ELSE m = n

RECURSIVE Equal(_, _)
Equal(a, b) ==
    /\ a.tag = b.tag
    /\ CASE a.tag = "Static" -> EqualStatic(a.node, b.node)
         [] a.tag = "String" -> a.str.s = b.str.s
         [] a.tag = "Array" ->
               /\ Len(a.arr) = Len(b.arr)
               /\ \A i \in 1..Len(a.arr) : Equal(a.arr[i], b.arr[i])
         [] a.tag = "Object" ->
               \A c \in KeySet(a.obj) \cup KeySet(b.obj) :
                  LET x == map_get(a.obj, Owned(c))
                      y == map_get(b.obj, Owned(c))
                  IN  x.some /\ y.some /\ Equal(x.val, y.val)
         [] OTHER -> FALSE

C11_RoundTrip ==
    decoded.some => (decoded.val.ok /\ Equal(val, decoded.val.val))

\* a hash-backed object came back from its text with its keys in another order
C11_Witness ==
    /\ decoded.some
    /\ decoded.val.ok
    /\ val.tag = "Object"
    /\ Len(val.obj.v) > VEC_LIMIT_UPPER
    /\ Len(decoded.val.val.obj.v) = Len(val.obj.v)
    /\ KeySeq(decoded.val.val.obj) # KeySeq(val.obj)

(***************************************************************************)
(* C12.  When a key occurs more than once among the n pairs of an          *)
(* Object(n) event the later pair overwrites the earlier one: the built    *)
(* Object holds exactly one entry per key, carrying the value built from   *)
(* the key's last occurrence.                                              *)
(***************************************************************************)
\* the last pair of the top-level Object whose key event has contents c
LastPair(ev, c) ==
    CHOOSE j \in 1..ev[1].len :
        /\ ev[ObjectKey(ev, j)].str.s = c
        /\ \A i \in (j + 1)..ev[1].len : ev[ObjectKey(ev, i)].str.s # c

C12_DuplicateKeysOverwrite ==
    (Built /\ events # <<>> /\ events[1].tag = "Object") =>
        /\ val.tag = "Object"
        /\ UniqueKeys(val.obj)
        /\ \A j \in 1..events[1].len :
              LET c == events[ObjectKey(events, j)].str
              IN  get(val, c) =
                     Some(BuiltFrom(events, ObjectKey(events, LastPair(events, c.s)) + 1))

(***************************************************************************)
(* C13.  On a well-formed stream one parse consumes exactly the events of  *)
(* one value: 1 for a Static or String, 1 plus the events of its children  *)
(* for Array(n), 1 plus the n keys and the events of the n values for      *)
(* Object(n).  The cursor moves forward, a value inside a longer stream is *)
(* built from its own events only, and after the top-level value the       *)
(* cursor stands right after that value's last event.                      *)
(***************************************************************************)
C13_CursorAfterValue ==
    (Built /\ events # <<>>) =>
        /\ idx = ValueEnd(events, 1) - 1
        /\ \A i \in 1..Len(events) :
              LET r == parse(hasher, events, i - 1)
              IN  /\ r.idx = ValueEnd(events, i) - 1
                  /\ r.idx > i - 1
                  /\ r.val = BuiltFrom(events, i)

\* a built array whose first child is an object of one pair and whose second is a leaf
C13_Witness ==
    /\ Built
    /\ events # <<>>
    /\ events[1] = NArray(2)
    /\ events[2] = NObject(1)
    /\ Len(events) = 5
    /\ idx = 5

====
